---------------------------- MODULE Spec2Model ----------------------------
(***************************************************************************)
(* Binance futures testnet trading bot: the credential probe               *)
(* (BasicBot.test_connection, run from BasicBot.__init__), the order       *)
(* submitter (BasicBot.place_order), the command line entry point (main)   *)
(* and the standalone credential script (test_api_credentials).            *)
(*                                                                         *)
(* Strings the code inspects character by character (symbol, side, order   *)
(* type) are sequences of one-character strings.  Quantities and prices    *)
(* are integers (a fixed number of decimal places); an absent price        *)
(* (None) is the empty sequence and a given price p is <<p>>.              *)
(***************************************************************************)
EXTENDS Integers, Sequences, FiniteSets, TLC

VARIABLES
    entry,      \* which program runs: "cli", "script", "caller", "recaller"
    pc,         \* position of the single thread of control
    input,      \* arguments of the current place_order call (<<>>: none yet)
    pending,    \* recaller: arguments of the second call, <<>> if none
    params,     \* place_order's local params dict (<<>>: not built)
    balance,    \* test_connection's local balance list
    exc,        \* exception in flight or raised to the caller (<<>>: none)
    result,     \* value returned by place_order / test_api_credentials
    calls,      \* remote calls issued so far, in order
    callStart,  \* Len(calls) when the current place_order call began
    prev,       \* recaller: outcome of the first place_order call
    log,        \* records written through self.logger
    label,      \* error label printed by main ("" if none)
    exitCode    \* process exit status (-1 while running)

vars == <<entry, pc, input, pending, params, balance, exc, result, calls,
          callStart, prev, log, label, exitCode>>

---------------------------------------------------------------------------
(* Bounds of the model                                                     *)

MaxQty == 1
MaxPrice == 1
MaxBalances == 2

---------------------------------------------------------------------------
(* Strings                                                                 *)

LowerLetters == <<"a","b","c","d","e","f","g","h","i","j","k","l","m",
                  "n","o","p","q","r","s","t","u","v","w","x","y","z">>
UpperLetters == <<"A","B","C","D","E","F","G","H","I","J","K","L","M",
                  "N","O","P","Q","R","S","T","U","V","W","X","Y","Z">>
Whitespace == {" ", "\t", "\n"}

Chars == {LowerLetters[i] : i \in 1..26} \cup {UpperLetters[i] : i \in 1..26}
             \cup Whitespace

\* The upper-case form of each character: a lower-case letter maps to its
\* capital, every other character to itself.
UpperChar ==
    [c \in Chars |->
        IF \E i \in 1..26 : LowerLetters[i] = c
        THEN UpperLetters[CHOOSE i \in 1..26 : LowerLetters[i] = c]
        ELSE c]

LowerChar ==
    [c \in Chars |->
        IF \E i \in 1..26 : UpperLetters[i] = c
        THEN LowerLetters[CHOOSE i \in 1..26 : UpperLetters[i] = c]
        ELSE c]

\* str.upper()
upper(s) == [i \in 1..Len(s) |-> UpperChar[s[i]]]

\* str.lower()
lower(s) == [i \in 1..Len(s) |-> LowerChar[s[i]]]

\* str.strip(): drop leading and trailing whitespace
strip(s) ==
    LET keep == {i \in 1..Len(s) : s[i] \notin Whitespace}
    IN IF keep = {} THEN <<>>
       ELSE LET lo == CHOOSE i \in keep : \A j \in keep : i <= j
                hi == CHOOSE i \in keep : \A j \in keep : j <= i
            IN SubSeq(s, lo, hi)

\* str.endswith(suffix)
endswith(s, suffix) ==
    /\ Len(s) >= Len(suffix)
    /\ SubSeq(s, Len(s) - Len(suffix) + 1, Len(s)) = suffix

USDT == <<"U","S","D","T">>
BUY == <<"B","U","Y">>
SELL == <<"S","E","L","L">>
MARKET == <<"M","A","R","K","E","T">>
LIMIT == <<"L","I","M","I","T">>

---------------------------------------------------------------------------
(* Inputs                                                                  *)

SymbolWords == {<<"B","T","C">> \o USDT, USDT \o <<"B","T","C">>,
                <<"B","T","C","E","U","R">>}
SideWords == {BUY, SELL, <<"H","O","L","D">>}
TypeWords == {MARKET, LIMIT, <<"S","T","O","P">>}

\* Ways a caller may spell a word: as is, lower case, and capitalised with
\* surrounding whitespace.
Spellings(w) ==
    {w, lower(w), <<" ">> \o <<w[1]>> \o lower(Tail(w)) \o <<"\t">>}

Quantities == (0 - MaxQty)..MaxQty
Prices == {<<>>} \cup {<<p>> : p \in (0 - MaxPrice)..MaxPrice}

\* Orders spelled the way the exchange spells them.
CanonicalInputs ==
    [symbol : SymbolWords, side : SideWords, order_type : TypeWords,
     quantity : Quantities, price : Prices]

Respell(a, s, d, t) ==
    [a EXCEPT !.symbol = s, !.side = d, !.order_type = t]

Respellings(a) ==
    {Respell(a, s, d, t) : s \in Spellings(a.symbol), d \in Spellings(a.side),
                           t \in Spellings(a.order_type)}

\* Arguments a caller of place_order may pass.
PlaceInputs == UNION {Respellings(a) : a \in CanonicalInputs}

\* Arguments argparse lets through: side and type are restricted to the
\* lower-case choices, quantity and price are floats, price is optional.
CliInputs ==
    {a \in PlaceInputs : /\ a.side \in {lower(BUY), lower(SELL)}
                         /\ a.order_type \in {lower(MARKET), lower(LIMIT)}}

---------------------------------------------------------------------------
(* The remote service                                                      *)

ApiErrors ==
    {[type |-> "BinanceAPIException", code |-> -2015,
      message |-> "Invalid API-key, IP, or permissions for action."],
     [type |-> "BinanceAPIException", code |-> -2019,
      message |-> "Margin is insufficient."]}
OtherErrors ==
    {[type |-> "Exception", message |-> "Connection aborted."]}
RemoteFailures == ApiErrors \cup OtherErrors

Assets == {"USDT", "BNB"}
BalanceLists ==
    UNION {[1..n -> [asset : Assets, balance : {"100.0"}]] : n \in 0..MaxBalances}

\* The exchange's answer to an accepted order: the request echoed with an
\* order id and a status.
OrderResponses(req) ==
    {[orderId |-> 1, status |-> st, request |-> req] : st \in {"NEW"}}

\* str(e)
StrOf(e) ==
    IF e.type = "BinanceAPIException"
    THEN <<"APIError", e.code, e.message>>
    ELSE <<e.message>>

Info(m) == [level |-> "INFO", message |-> m]
Warning(m) == [level |-> "WARNING", message |-> m]
Error(m) == [level |-> "ERROR", message |-> m]

Call(op, ok) == [op |-> op, ok |-> ok]

Init ==
    /\ entry \in {"cli", "script", "caller", "recaller"}
    /\ pc = "start"
    /\ input = <<>>
    /\ pending = <<>>
    /\ params = <<>>
    /\ balance = <<>>
    /\ exc = <<>>
    /\ result = <<>>
    /\ calls = <<>>
    /\ callStart = 0
    /\ prev = <<>>
    /\ log = <<>>
    /\ label = ""
    /\ exitCode = -1


---------------------------------------------------------------------------
(* BasicBot.__init__ and BasicBot.test_connection                          *)

\* A caller that caught nothing yet sees the exception e leave the callee.
Raise(e, at) == /\ exc' = e
                /\ pc' = at

\* Client(api_key, api_secret, testnet=True): the handle is built, or the
\* library raises.
BasicBot_init ==
    /\ pc = "init"
    /\ \/ /\ pc' = "tc_ping"
          /\ exc' = exc
       \/ \E e \in OtherErrors : Raise(e, "init_except")
    /\ UNCHANGED <<entry, input, pending, params, balance, result, calls,
                   callStart, prev, log, label, exitCode>>

\* One remote call inside a try block: it answers (pc moves to next) or
\* fails (the exception reaches the handlers of the try block).
RemoteCall(here, op, next, handler) ==
    /\ pc = here
    /\ \/ /\ calls' = Append(calls, Call(op, TRUE))
          /\ pc' = next
          /\ exc' = exc
       \/ \E e \in RemoteFailures :
             /\ calls' = Append(calls, Call(op, FALSE))
             /\ Raise(e, handler)

ProbeCall(here, op, next) == RemoteCall(here, op, next, "tc_except")

futures_ping ==
    /\ ProbeCall("tc_ping", "futures_ping", "tc_time")
    /\ UNCHANGED <<entry, input, pending, params, balance, result,
                   callStart, prev, log, label, exitCode>>

\* The two info records are written only once the server time arrived.
futures_time ==
    /\ ProbeCall("tc_time", "futures_time", "tc_account")
    /\ log' = IF pc' = "tc_account"
              THEN log \o <<Info(<<"API Connection Successful">>),
                            Info(<<"Binance Server Time">>)>>
              ELSE log
    /\ UNCHANGED <<entry, input, pending, params, balance, result,
                   callStart, prev, label, exitCode>>

futures_account ==
    /\ ProbeCall("tc_account", "futures_account", "tc_balance")
    /\ log' = IF pc' = "tc_balance"
              THEN Append(log, Info(<<"Account Status">>))
              ELSE log
    /\ UNCHANGED <<entry, input, pending, params, balance, result,
                   callStart, prev, label, exitCode>>

futures_account_balance ==
    /\ ProbeCall("tc_balance", "futures_account_balance", "tc_select")
    /\ IF pc' = "tc_select"
       THEN balance' \in BalanceLists
       ELSE balance' = balance
    /\ UNCHANGED <<entry, input, pending, params, result,
                   callStart, prev, log, label, exitCode>>

\* next((item for item in balance if item['asset'] == 'USDT'), None)
usdt_balance(b) ==
    LET hits == {i \in 1..Len(b) : b[i].asset = "USDT"}
    IN IF hits = {} THEN <<>>
       ELSE <<b[CHOOSE i \in hits : \A j \in hits : i <= j]>>

\* A selection that treats a missing USDT entry as a failure of the probe.
select_balance_strict ==
    /\ pc = "tc_select"
    /\ IF usdt_balance(balance) # <<>>
       THEN /\ log' = Append(log, Info(<<"Available Balance",
                                         usdt_balance(balance)[1].balance>>))
            /\ pc' = "init_after"
            /\ exc' = exc
       ELSE /\ Raise([type |-> "Exception", message |-> "No USDT balance found"],
                     "tc_except")
            /\ log' = log
    /\ UNCHANGED <<entry, input, pending, params, balance, result,
                   calls, callStart, prev, label, exitCode>>

\* The balance is reported, or its absence is warned about; either way
\* test_connection returns to __init__.
select_balance ==
    /\ pc = "tc_select"
    /\ log' = IF usdt_balance(balance) # <<>>
              THEN Append(log, Info(<<"Available Balance",
                                      usdt_balance(balance)[1].balance>>))
              ELSE Append(log, Warning(<<"No USDT balance found">>))
    /\ pc' = "init_after"
    /\ UNCHANGED <<entry, input, pending, params, balance, exc, result,
                   calls, callStart, prev, label, exitCode>>

\* Handlers that log the failure and let test_connection return.
test_connection_except_swallow ==
    /\ pc = "tc_except"
    /\ log' = Append(log, Error(<<"Connection test failed">> \o StrOf(exc)))
    /\ exc' = <<>>
    /\ pc' = "init_after"
    /\ UNCHANGED <<entry, input, pending, params, balance, result,
                   calls, callStart, prev, label, exitCode>>

\* test_connection's handlers: log the failure and re-raise it.
test_connection_except ==
    /\ pc = "tc_except"
    /\ log' = IF exc.type = "BinanceAPIException"
              THEN Append(log, Error(<<"API Error", exc.code, exc.message>>))
              ELSE Append(log, Error(<<"Connection test failed">> \o StrOf(exc)))
    /\ pc' = "init_except"
    /\ UNCHANGED <<entry, input, pending, params, balance, exc, result,
                   calls, callStart, prev, label, exitCode>>

\* self.logger.info("Trading bot initialized successfully"); the
\* constructor returns the bot.
init_after ==
    /\ pc = "init_after"
    /\ log' = Append(log, Info(<<"Trading bot initialized successfully">>))
    /\ balance' = <<>>
    /\ pc' = "constructed"
    /\ UNCHANGED <<entry, input, pending, params, exc, result, calls,
                   callStart, prev, label, exitCode>>

\* A handler that logs the failure and hands out the bot all the same.
init_except_swallow ==
    /\ pc = "init_except"
    /\ log' = Append(log, Error(<<"Initialization failed">> \o StrOf(exc)))
    /\ balance' = <<>>
    /\ exc' = <<>>
    /\ pc' = "constructed"
    /\ UNCHANGED <<entry, input, pending, params, result, calls,
                   callStart, prev, label, exitCode>>

\* __init__'s handler: log the failure and re-raise it to the code that
\* constructs the bot.
init_except ==
    /\ pc = "init_except"
    /\ log' = Append(log, Error(<<"Initialization failed">> \o StrOf(exc)))
    /\ balance' = <<>>
    /\ pc' = "ctor_raised"
    /\ UNCHANGED <<entry, input, pending, params, exc, result, calls,
                   callStart, prev, label, exitCode>>

---------------------------------------------------------------------------
(* BasicBot.place_order                                                    *)

\* A normalisation that forgets to strip.
normalize_unstripped(s) == upper(s)

\* symbol.upper().strip(), side.upper().strip(), order_type.upper().strip()
normalize(s) == strip(upper(s))

Reject(msg) == [ok |-> FALSE, error |-> msg]
Accept(p) == [ok |-> TRUE, params |-> p]

\* A params dict that carries the price whenever one was supplied.
build_params_any_price(symbol, side, order_type, quantity, price) ==
    LET common == [symbol |-> symbol, side |-> side, type |-> order_type,
                   quantity |-> quantity]
    IN IF price # <<>>
       THEN common @@ [price |-> price[1], timeInForce |-> "GTC"]
       ELSE common

\* The params dict: the four common fields, and for LIMIT the price and the
\* time in force.
build_params(symbol, side, order_type, quantity, price) ==
    LET common == [symbol |-> symbol, side |-> side, type |-> order_type,
                   quantity |-> quantity]
    IN IF order_type = LIMIT
       THEN common @@ [price |-> price[1], timeInForce |-> "GTC"]
       ELSE common

\* Validation that checks that a limit price is present but not its sign.
validate_unsigned_price(a) ==
    LET symbol == normalize(a.symbol)
        side == normalize(a.side)
        order_type == normalize(a.order_type)
    IN IF ~endswith(symbol, USDT)
       THEN Reject("Symbol must be a USDT-M pair (e.g., BTCUSDT)")
       ELSE IF side \notin {BUY, SELL}
       THEN Reject("Side must be 'BUY' or 'SELL'")
       ELSE IF a.quantity <= 0
       THEN Reject("Quantity must be positive")
       ELSE IF order_type \notin {MARKET, LIMIT}
       THEN Reject("Order type must be MARKET or LIMIT")
       ELSE IF order_type = LIMIT /\ a.price = <<>>
       THEN Reject("Price is required for limit orders")
       ELSE Accept(build_params(symbol, side, order_type, a.quantity, a.price))

\* The checks of place_order in the order the code makes them; the first
\* violated one raises ValueError with its message.
validate(a) ==
    LET symbol == normalize(a.symbol)
        side == normalize(a.side)
        order_type == normalize(a.order_type)
    IN IF ~endswith(symbol, USDT)
       THEN Reject("Symbol must be a USDT-M pair (e.g., BTCUSDT)")
       ELSE IF side \notin {BUY, SELL}
       THEN Reject("Side must be 'BUY' or 'SELL'")
       ELSE IF a.quantity <= 0
       THEN Reject("Quantity must be positive")
       ELSE IF order_type \notin {MARKET, LIMIT}
       THEN Reject("Order type must be MARKET or LIMIT")
       ELSE IF order_type = LIMIT /\ a.price = <<>>
       THEN Reject("Price is required for limit orders")
       ELSE IF order_type = LIMIT /\ a.price[1] <= 0
       THEN Reject("Price must be positive")
       ELSE Accept(build_params(symbol, side, order_type, a.quantity, a.price))

\* Lines 80-119: validation and the building of the request.  A violated
\* rule raises ValueError inside the try block.
place_order_validate ==
    /\ pc = "place"
    /\ IF validate(input).ok
       THEN /\ params' = validate(input).params
            /\ log' = Append(log, Info(<<"Placing order">>))
            /\ pc' = "place_send"
            /\ exc' = exc
       ELSE /\ Raise([type |-> "ValueError", message |-> validate(input).error],
                     "place_except")
            /\ UNCHANGED <<params, log>>
    /\ UNCHANGED <<entry, input, pending, balance, result, calls, callStart,
                   prev, label, exitCode>>

\* The request as the remote call receives it.
OrderCall(req, ok, answer) ==
    [op |-> "futures_create_order", ok |-> ok, request |-> req,
     response |-> answer]

\* Lines 120-122: the single remote call; its answer is logged and
\* returned, its failure reaches place_order's handlers.
futures_create_order ==
    /\ pc = "place_send"
    /\ \/ \E r \in OrderResponses(params) :
             /\ calls' = Append(calls, OrderCall(params, TRUE, r))
             /\ log' = Append(log, Info(<<"Order successful">>))
             /\ result' = r
             /\ pc' = "place_returned"
             /\ exc' = exc
       \/ \E e \in RemoteFailures :
             /\ calls' = Append(calls, OrderCall(params, FALSE, e))
             /\ Raise(e, "place_except")
             /\ UNCHANGED <<log, result>>
    /\ UNCHANGED <<entry, input, pending, params, balance, callStart, prev,
                   label, exitCode>>

\* The exception place_order's handlers raise in place of e.
translate(e) ==
    IF e.type = "BinanceAPIException"
    THEN [type |-> "RuntimeError", message |-> <<"API Error", e.code, e.message>>]
    ELSE [type |-> "RuntimeError", message |-> <<"Order failed">> \o StrOf(e)]

\* Handlers that log the failure and submit the request again.
place_order_except_retry ==
    /\ pc = "place_except"
    /\ log' = Append(log, Error(translate(exc).message))
    /\ IF params # <<>>
       THEN /\ pc' = "place_send"
            /\ exc' = <<>>
       ELSE Raise(translate(exc), "place_raised")
    /\ UNCHANGED <<entry, input, pending, params, balance, result, calls,
                   callStart, prev, label, exitCode>>

\* Lines 124-131: both handlers log the message and raise RuntimeError.
place_order_except ==
    /\ pc = "place_except"
    /\ log' = Append(log, Error(translate(exc).message))
    /\ Raise(translate(exc), "place_raised")
    /\ UNCHANGED <<entry, input, pending, params, balance, result, calls,
                   callStart, prev, label, exitCode>>

---------------------------------------------------------------------------
(* main: the command line entry point                                      *)

\* parser.parse_args() and the call of BasicBot(...)
main_start ==
    /\ entry = "cli"
    /\ pc = "start"
    /\ input' \in CliInputs
    /\ pc' = "init"
    /\ UNCHANGED <<entry, pending, params, balance, exc, result, calls,
                   callStart, prev, log, label, exitCode>>

\* Lines 164-176: main's own check of the limit price, then the call of
\* place_order.
main_place ==
    /\ entry = "cli"
    /\ pc = "constructed"
    /\ IF input.order_type = lower(LIMIT) /\ input.price = <<>>
       THEN /\ Raise([type |-> "ValueError",
                      message |-> "Price is required for limit orders"],
                     "main_raised")
            /\ UNCHANGED callStart
       ELSE /\ pc' = "place"
            /\ callStart' = Len(calls)
            /\ exc' = exc
    /\ UNCHANGED <<entry, input, pending, params, balance, result, calls,
                   prev, log, label, exitCode>>

\* Lines 178-195: the order details are printed and main returns.
main_report ==
    /\ entry = "cli"
    /\ pc = "place_returned"
    /\ pc' = "exited"
    /\ exitCode' = 0
    /\ UNCHANGED <<entry, input, pending, params, balance, exc, result, calls,
                   callStart, prev, log, label>>

\* The label of the except clause of main that catches e.
error_label(e) ==
    IF e.type = "ValueError" THEN "Validation Error"
    ELSE IF e.type = "RuntimeError" THEN "Trading Error"
    ELSE "Unexpected Error"

\* Lines 197-206: the labelled message is printed and the process exits
\* with status 1.
main_except ==
    /\ entry = "cli"
    /\ pc \in {"ctor_raised", "main_raised", "place_raised"}
    /\ label' = error_label(exc)
    /\ exitCode' = 1
    /\ pc' = "exited"
    /\ UNCHANGED <<entry, input, pending, params, balance, exc, result, calls,
                   callStart, prev, log>>

---------------------------------------------------------------------------
(* Programs that use BasicBot as a library                                 *)

\* BasicBot(api_key, api_secret)
construct ==
    /\ entry \in {"caller", "recaller"}
    /\ pc = "start"
    /\ pc' = "init"
    /\ UNCHANGED <<entry, input, pending, params, balance, exc, result, calls,
                   callStart, prev, log, label, exitCode>>

\* bot.place_order(...) with any arguments
caller_place ==
    /\ entry = "caller"
    /\ pc = "constructed"
    /\ input' \in PlaceInputs
    /\ callStart' = Len(calls)
    /\ pc' = "place"
    /\ UNCHANGED <<entry, pending, params, balance, exc, result, calls,
                   prev, log, label, exitCode>>

\* The recaller places an order and then the same order spelled
\* differently.
recaller_first ==
    /\ entry = "recaller"
    /\ pc = "constructed"
    /\ \E a \in CanonicalInputs : \E b \in Respellings(a) :
          /\ input' = a
          /\ pending' = b
    /\ callStart' = Len(calls)
    /\ pc' = "place"
    /\ UNCHANGED <<entry, params, balance, exc, result, calls, prev, log,
                   label, exitCode>>

\* What a caller observes of a finished place_order call.
Outcome ==
    [input |-> input, exc |-> exc, result |-> result,
     sent |-> SubSeq(calls, callStart + 1, Len(calls))]

\* The first call is over (it returned or raised, and the recaller caught
\* what it raised): the second call begins.
recaller_second ==
    /\ entry = "recaller"
    /\ pc \in {"place_returned", "place_raised"}
    /\ pending # <<>>
    /\ prev' = Outcome
    /\ input' = pending
    /\ pending' = <<>>
    /\ params' = <<>>
    /\ exc' = <<>>
    /\ result' = <<>>
    /\ callStart' = Len(calls)
    /\ pc' = "place"
    /\ UNCHANGED <<entry, balance, calls, log, label, exitCode>>

---------------------------------------------------------------------------
(* test_credentials.py: test_api_credentials                               *)

script_client ==
    /\ entry = "script"
    /\ pc = "start"
    /\ \/ /\ pc' = "s_ping"
          /\ exc' = exc
       \/ \E e \in OtherErrors : Raise(e, "s_except")
    /\ UNCHANGED <<entry, input, pending, params, balance, result, calls,
                   callStart, prev, log, label, exitCode>>

script_ping ==
    /\ RemoteCall("s_ping", "futures_ping", "s_time", "s_except")
    /\ UNCHANGED <<entry, input, pending, params, balance, result,
                   callStart, prev, log, label, exitCode>>

script_time ==
    /\ RemoteCall("s_time", "futures_time", "s_account", "s_except")
    /\ UNCHANGED <<entry, input, pending, params, balance, result,
                   callStart, prev, log, label, exitCode>>

script_account ==
    /\ RemoteCall("s_account", "futures_account", "s_balance", "s_except")
    /\ UNCHANGED <<entry, input, pending, params, balance, result,
                   callStart, prev, log, label, exitCode>>

\* Lines 38-47: with or without a USDT entry the script prints and returns
\* True.
script_balance ==
    /\ RemoteCall("s_balance", "futures_account_balance", "s_returned", "s_except")
    /\ IF pc' = "s_returned"
       THEN /\ balance' \in BalanceLists
            /\ result' = [value |-> TRUE]
       ELSE UNCHANGED <<balance, result>>
    /\ UNCHANGED <<entry, input, pending, params,
                   callStart, prev, log, label, exitCode>>

\* Lines 49-51: the script prints the failure and returns False.
script_except ==
    /\ pc = "s_except"
    /\ result' = [value |-> FALSE]
    /\ exc' = <<>>
    /\ pc' = "s_returned"
    /\ UNCHANGED <<entry, input, pending, params, balance, calls,
                   callStart, prev, log, label, exitCode>>

---------------------------------------------------------------------------

Next ==
    \/ BasicBot_init
    \/ futures_ping
    \/ futures_time
    \/ futures_account
    \/ futures_account_balance
    \/ select_balance
    \/ test_connection_except
    \/ init_after
    \/ init_except
    \/ place_order_validate
    \/ futures_create_order
    \/ place_order_except
    \/ main_start
    \/ main_place
    \/ main_report
    \/ main_except
    \/ construct
    \/ caller_place
    \/ recaller_first
    \/ recaller_second
    \/ script_client
    \/ script_ping
    \/ script_time
    \/ script_account
    \/ script_balance
    \/ script_except

Spec == Init /\ [][Next]_vars

---------------------------------------------------------------------------
(* Vocabulary of the properties                                            *)

PlacePcs == {"place", "place_send", "place_except", "place_raised",
             "place_returned"}

\* The remote calls issued during the current place_order call.
SentInCall == SubSeq(calls, callStart + 1, Len(calls))

ProbeOrder == <<"futures_ping", "futures_time", "futures_account",
                "futures_account_balance">>

ProbeFailed == \E i \in 1..Len(calls) : i <= 4 /\ ~calls[i].ok

ProbePassed == Len(calls) >= 4 /\ \A i \in 1..4 : calls[i].ok

OrderCalls == {i \in 1..Len(calls) : calls[i].op = "futures_create_order"}

ErrorRecords == {i \in 1..Len(log) : log[i].level = "ERROR"}

\* A string as the exchange spells it: trimmed, in upper case.
Canon(s) == upper(strip(s))

\* The validation rules, stated on the canonical strings.
BadSymbol(a) == ~endswith(Canon(a.symbol), USDT)
BadSide(a) == Canon(a.side) \notin {BUY, SELL}
BadQuantity(a) == a.quantity <= 0
BadType(a) == Canon(a.order_type) \notin {MARKET, LIMIT}
BadPrice(a) == /\ Canon(a.order_type) = LIMIT
               /\ (a.price = <<>> \/ a.price[1] <= 0)
InvalidOrder(a) ==
    BadSymbol(a) \/ BadSide(a) \/ BadQuantity(a) \/ BadType(a) \/ BadPrice(a)

\* The message of the first violated rule, in the order symbol, side,
\* quantity, order type, price.
FirstViolatedRule(a) ==
    IF BadSymbol(a) THEN "Symbol must be a USDT-M pair (e.g., BTCUSDT)"
    ELSE IF BadSide(a) THEN "Side must be 'BUY' or 'SELL'"
    ELSE IF BadQuantity(a) THEN "Quantity must be positive"
    ELSE IF BadType(a) THEN "Order type must be MARKET or LIMIT"
    ELSE IF a.price = <<>> THEN "Price is required for limit orders"
    ELSE "Price must be positive"

\* Two spellings of one order: the strings differ at most in letter case
\* and surrounding whitespace, quantity and price are equal.
SameOrder(a, b) ==
    /\ lower(strip(a.symbol)) = lower(strip(b.symbol))
    /\ lower(strip(a.side)) = lower(strip(b.side))
    /\ lower(strip(a.order_type)) = lower(strip(b.order_type))
    /\ a.quantity = b.quantity
    /\ a.price = b.price

---------------------------------------------------------------------------
(* Properties                                                              *)

\* C1: a place_order call whose arguments violate a validation rule fails,
\* and futures_create_order is not issued during that call.
C1_InvalidNeverSent ==
    (pc \in PlacePcs /\ InvalidOrder(input)) =>
        /\ SentInCall = <<>>
        /\ pc \in {"place", "place_except", "place_raised"}
        /\ pc = "place_raised" => exc # <<>>

\* C1 witness: a limit order with a non-positive price, otherwise valid, has
\* been refused.
C1_Witness ==
    /\ pc = "place_raised"
    /\ ~BadSymbol(input) /\ ~BadSide(input) /\ ~BadQuantity(input)
    /\ Canon(input.order_type) = LIMIT
    /\ input.price # <<>>
    /\ input.price[1] <= 0
    /\ SentInCall = <<>>

\* C2: a locally rejected order reaches the caller as an error of the
\* validation kind (ValueError, which main labels "Validation Error"), not of
\* the kind used for remote failures (RuntimeError), and it names the first
\* violated rule.
C2_ValidationErrorKind ==
    (pc = "place_raised" /\ InvalidOrder(input)) =>
        /\ exc.type = "ValueError"
        /\ exc.message = FirstViolatedRule(input)

\* C3: every request sent carries price and timeInForce = GTC exactly when
\* its type is LIMIT; a MARKET request has the fields symbol, side, type and
\* quantity and no other, whatever price the caller supplied.
C3_RequestShape ==
    \A i \in OrderCalls :
        LET r == calls[i].request
        IN /\ r.type \in {MARKET, LIMIT}
           /\ ("price" \in DOMAIN r) <=> (r.type = LIMIT)
           /\ ("timeInForce" \in DOMAIN r) <=> (r.type = LIMIT)
           /\ r.type = LIMIT => r.timeInForce = "GTC"
           /\ r.type = MARKET =>
                  DOMAIN r = {"symbol", "side", "type", "quantity"}
           /\ (i > callStart /\ r.type = LIMIT) => r.price = input.price[1]
           /\ i > callStart => r.quantity = input.quantity

\* C3 witness: a MARKET order was sent although the caller supplied a
\* non-positive price.
C3_Witness ==
    /\ pc \in PlacePcs
    /\ Len(SentInCall) = 1
    /\ SentInCall[1].request.type = MARKET
    /\ input.price # <<>>
    /\ input.price[1] <= 0

\* Whether a finished call got as far as sending its request.
Accepted(o) == Len(o.sent) = 1

\* C4: two place_order calls whose symbol, side and type differ only in
\* letter case or surrounding whitespace, with equal quantity and price, are
\* both accepted or both rejected, and when accepted they send the same
\* request, with symbol, side and type trimmed and in upper case.
C4_CaseInsensitive ==
    (/\ entry = "recaller"
     /\ prev # <<>>
     /\ pc \in {"place_raised", "place_returned"}
     /\ SameOrder(prev.input, input)) =>
        /\ Accepted(prev) <=> Accepted(Outcome)
        /\ Accepted(prev) =>
              /\ prev.sent[1].request = Outcome.sent[1].request
              /\ prev.sent[1].request.symbol = Canon(input.symbol)
              /\ prev.sent[1].request.side = Canon(input.side)
              /\ prev.sent[1].request.type = Canon(input.order_type)

\* C4 witness: two different spellings of one order were both sent.
C4_Witness ==
    /\ entry = "recaller"
    /\ prev # <<>>
    /\ pc \in {"place_raised", "place_returned"}
    /\ SameOrder(prev.input, input)
    /\ prev.input.symbol # input.symbol
    /\ prev.input.side # input.side
    /\ prev.input.order_type # input.order_type
    /\ Accepted(prev)
    /\ Accepted(Outcome)

C6_OrderOnlyAfterProbe ==
    entry = "cli" =>
        /\ OrderCalls # {} => (ProbePassed /\ \A i \in OrderCalls : i > 4)
        /\ (pc = "exited" /\ ~ProbePassed) =>
               (exitCode = 1 /\ OrderCalls = {})

\* C6 witness: main created an order, after the four probe calls.
C6_Witness ==
    /\ entry = "cli"
    /\ pc = "exited"
    /\ ProbePassed
    /\ OrderCalls = {5}

\* C7: when the balance list holds no USDT entry (it may be empty) the probe
\* completes without raising and records a warning, not a balance and not
\* an error; the caller then goes on as after a probe that found a balance.
C7_MissingBalanceIsSoft ==
    /\ (pc = "init_after" /\ \A i \in 1..Len(balance) : balance[i].asset # "USDT") =>
          /\ exc = <<>>
          /\ log[Len(log)].level = "WARNING"
          /\ ErrorRecords = {}
    /\ (pc = "init_after" /\ \E i \in 1..Len(balance) : balance[i].asset = "USDT") =>
          /\ exc = <<>>
          /\ log[Len(log)].level = "INFO"
          /\ ErrorRecords = {}
    /\ ProbePassed =>
          /\ pc \notin {"tc_except", "init_except", "ctor_raised", "s_except"}
          /\ pc = "s_returned" => result = [value |-> TRUE]
    /\ (entry # "script" /\ pc \in {"tc_select", "init_after", "constructed",
                                   "place"}) => (exc = <<>> /\ ProbePassed)

\* C7 witness: the bot was constructed after the exchange returned an empty
\* balance list.
C7_Witness ==
    /\ pc = "init_after"
    /\ balance = <<>>
    /\ exc = <<>>
    /\ log[Len(log)].level = "WARNING"

\* C8: a place_order call issues futures_create_order at most once; exactly
\* once when it returns, and what it returns is the remote answer; when the
\* call fails, place_order raises RuntimeError carrying the upstream code and
\* message, without a second attempt.
C8_SingleSubmission ==
    pc \in PlacePcs =>
        /\ Len(SentInCall) <= 1
        /\ \A i \in 1..Len(SentInCall) :
              SentInCall[i].op = "futures_create_order"
        /\ pc = "place_returned" =>
              /\ Len(SentInCall) = 1
              /\ SentInCall[1].ok
              /\ result = SentInCall[1].response
              /\ exc = <<>>
        /\ (pc = "place_raised" /\ Len(SentInCall) = 1) =>
              /\ ~SentInCall[1].ok
              /\ exc.type = "RuntimeError"
              /\ LET e == SentInCall[1].response
                 IN IF e.type = "BinanceAPIException"
                    THEN exc.message = <<"API Error", e.code, e.message>>
                    ELSE exc.message = <<"Order failed", e.message>>

\* C8 witness: the exchange rejected the order and place_order raised after
\* its single attempt.
C8_Witness ==
    /\ pc = "place_raised"
    /\ Len(SentInCall) = 1
    /\ SentInCall[1].response \in ApiErrors

\* The category of the failure of a finished run of main.
FailureCategory ==
    IF ~ProbePassed THEN "Unexpected Error"
    ELSE IF InvalidOrder(input) THEN "Validation Error"
    ELSE IF OrderCalls # {} THEN "Trading Error"
    ELSE "Unexpected Error"

\* C9: main exits with status 0 exactly when the probe succeeded and the
\* order was accepted, with status 1 otherwise, and on failure prints the
\* label of the failure's category.
C9_ExitAndLabel ==
    (entry = "cli" /\ pc = "exited") =>
        /\ exitCode \in {0, 1}
        /\ exitCode = 0 <=>
              (ProbePassed /\ \E i \in OrderCalls : calls[i].ok)
        /\ exitCode = 1 => label = FailureCategory

\* C10: an error raised in the core (by the probe during construction, by
\* validation, by the submission) leaves exactly one error-level log
\* record.
C10_LoggedOnce ==
    (entry \in {"cli", "caller"} /\ pc \in {"ctor_raised", "place_raised"}) =>
        Cardinality(ErrorRecords) = 1

=============================================================================
